---- MODULE Spec2Model ----
(***************************************************************************)
(* Model of src/proforma.py, the "Dev Pro-Forma Playground" script.        *)
(*                                                                         *)
(* The script reads fourteen widget values and derives the pro-forma       *)
(* figures from them with Python int and float arithmetic.  Python floats  *)
(* are IEEE 754 binary64 values, so the model carries its own binary64     *)
(* arithmetic: a significand of MantBits bits kept as a little-endian      *)
(* sequence of limbs, every operation rounded to nearest, ties to even.    *)
(***************************************************************************)
EXTENDS Integers, Sequences, FiniteSets, TLC

(***************************************************************************)
(* Natural numbers of arbitrary size: little-endian sequences of limbs in  *)
(* base LimbBase, without high zero limbs; <<>> is zero.                   *)
(***************************************************************************)
LimbBits == 14

LimbBase == 2^LimbBits

MantBits == 53

Max(a, b) == IF a >= b THEN a ELSE b

Min(a, b) == IF a <= b THEN a ELSE b

RECURSIVE BTrim(_)
BTrim(a) ==
    IF a = <<>> THEN <<>>
    ELSE IF a[Len(a)] = 0 THEN BTrim(SubSeq(a, 1, Len(a) - 1))
    ELSE a

Limb(a, i) == IF i >= 1 /\ i <= Len(a) THEN a[i] ELSE 0

\* cols[i] may exceed a limb; propagate the carries upwards from position i
RECURSIVE BCarry(_, _, _)
BCarry(cols, i, c) ==
    IF i > Len(cols)
    THEN IF c = 0 THEN <<>> ELSE <<c % LimbBase>> \o BCarry(cols, i, c \div LimbBase)
    ELSE LET t == cols[i] + c
         IN  <<t % LimbBase>> \o BCarry(cols, i + 1, t \div LimbBase)

BFromInt(n) == BTrim(BCarry(<<n>>, 1, 0))

BAdd(a, b) ==
    BTrim(BCarry([i \in 1..Max(Len(a), Len(b)) |-> Limb(a, i) + Limb(b, i)], 1, 0))

\* a - b for a >= b
RECURSIVE BSubFrom(_, _, _, _)
BSubFrom(a, b, i, borrow) ==
    IF i > Len(a) THEN <<>>
    ELSE LET t == a[i] - Limb(b, i) - borrow
         IN  IF t < 0 THEN <<t + LimbBase>> \o BSubFrom(a, b, i + 1, 1)
             ELSE <<t>> \o BSubFrom(a, b, i + 1, 0)

BSub(a, b) == BTrim(BSubFrom(a, b, 1, 0))

\* -1, 0, 1 as a < b, a = b, a > b
RECURSIVE BCmpFrom(_, _, _)
BCmpFrom(a, b, i) ==
    IF i = 0 THEN 0
    ELSE IF a[i] < b[i] THEN -1
    ELSE IF a[i] > b[i] THEN 1
    ELSE BCmpFrom(a, b, i - 1)

BCmp(a, b) ==
    IF Len(a) < Len(b) THEN -1
    ELSE IF Len(a) > Len(b) THEN 1
    ELSE BCmpFrom(a, b, Len(a))

RECURSIVE BMulCol(_, _, _, _)
BMulCol(a, b, k, i) ==
    IF i > Len(a) \/ i > k THEN 0
    ELSE a[i] * Limb(b, k + 1 - i) + BMulCol(a, b, k, i + 1)

\* schoolbook product; the operands have at most seven limbs each
BMul(a, b) ==
    IF a = <<>> \/ b = <<>> THEN <<>>
    ELSE BTrim(BCarry([k \in 1..(Len(a) + Len(b)) |-> BMulCol(a, b, k, 1)], 1, 0))

RECURSIVE LimbLen(_)
LimbLen(x) == IF x = 0 THEN 0 ELSE 1 + LimbLen(x \div 2)

\* number of significant bits
BLen(a) == IF a = <<>> THEN 0 ELSE (Len(a) - 1) * LimbBits + LimbLen(a[Len(a)])

Zeros(n) == [i \in 1..n |-> 0]

\* a * 2^k
BShl(a, k) ==
    IF a = <<>> THEN <<>>
    ELSE LET q == k \div LimbBits
             r == k % LimbBits
         IN  Zeros(q) \o BTrim(BCarry([i \in 1..Len(a) |-> a[i] * 2^r], 1, 0))

\* floor(a / 2^k)
BShr(a, k) ==
    LET q == k \div LimbBits
        r == k % LimbBits
    IN  IF q >= Len(a) THEN <<>>
        ELSE BTrim([i \in 1..(Len(a) - q) |->
                      (a[i + q] \div 2^r) + (Limb(a, i + q + 1) % 2^r) * 2^(LimbBits - r)])

\* bit i of a, bit 0 being the lowest
BBit(a, i) == (Limb(a, (i \div LimbBits) + 1) \div 2^(i % LimbBits)) % 2

\* are the k lowest bits of a all zero
BLowZero(a, k) ==
    LET q == k \div LimbBits
        r == k % LimbBits
    IN  /\ \A i \in 1..Min(q, Len(a)) : a[i] = 0
        /\ Limb(a, q + 1) % 2^r = 0

\* r - q * d, limb by limb: Len(d) + 1 limbs and, last, the carry out of
\* them, which is negative when q * d exceeds r
RECURSIVE BMulSubFrom(_, _, _, _, _)
BMulSubFrom(r, d, q, i, c) ==
    IF i > Len(d) + 1 THEN <<c>>
    ELSE LET t == Limb(r, i) - q * Limb(d, i) + c
         IN  <<t % LimbBase>> \o BMulSubFrom(r, d, q, i + 1, t \div LimbBase)

\* x + d for such a difference x
RECURSIVE BAddBack(_, _, _, _)
BAddBack(x, d, i, c) ==
    IF i > Len(d) + 1 THEN <<x[i] + c>>
    ELSE LET t == x[i] + Limb(d, i) + c
         IN  <<t % LimbBase>> \o BAddBack(x, d, i + 1, t \div LimbBase)

\* lower the quotient limb q until the difference x = r - q * d is not negative
RECURSIVE BDivFix(_, _, _)
BDivFix(x, d, q) ==
    IF x[Len(x)] = 0 THEN <<q, BTrim(SubSeq(x, 1, Len(x) - 1))>>
    ELSE BDivFix(BAddBack(x, d, 1, 0), d, q - 1)

\* one step of long division: the quotient limb and the remainder of r by d,
\* for r < d * LimbBase and d with its highest limb at least LimbBase / 2;
\* the estimate from the leading limbs is never too small
BDivDigit(r, d) ==
    LET top == Limb(r, Len(d) + 1) * LimbBase + Limb(r, Len(d))
        q   == Min(LimbBase - 1, top \div d[Len(d)])
    IN  BDivFix(BMulSubFrom(r, d, q, 1, 0), d, q)

RECURSIVE BDivLimbs(_, _, _, _)

\* s is a step's quotient limb and remainder: k - 1 limbs are left to find
RECURSIVE BDivNext(_, _, _, _)
BDivNext(s, d, k, q) == BDivLimbs(s[2], d, k - 1, <<s[1]>> \o q)

\* k further quotient limbs of (r * LimbBase^k) by d; q holds the limbs so far
BDivLimbs(r, d, k, q) ==
    IF k = 0 THEN <<BTrim(q), r>>
    ELSE BDivNext(BDivDigit(IF r = <<>> THEN <<>> ELSE <<0>> \o r, d), d, k, q)

(***************************************************************************)
(* Python floats.  A finite double is (-1)^neg * man * 2^exp with man a    *)
(* natural number of exactly MantBits bits; zero has man = <<>>.  Python   *)
(* compares -0.0 equal to 0.0, so one zero stands for both and equality of *)
(* records is Python's ==.  The magnitudes the inputs can produce stay     *)
(* far inside the exponent range, so there are no infinities, NaNs or      *)
(* subnormals.                                                             *)
(***************************************************************************)
Zero == [neg |-> FALSE, man |-> <<>>, exp |-> 0]

\* q * 2^e for q of MantBits bits, or of one more after a carry out of the
\* rounding, when q is 2^MantBits
RoundCarry(neg, q, e) ==
    IF BLen(q) > MantBits
    THEN [neg |-> neg, man |-> BShr(q, 1), exp |-> e + 1]
    ELSE [neg |-> neg, man |-> q, exp |-> e]

\* to nearest, ties to even: q is the kept part, half the first bit dropped,
\* rest whether anything is dropped below it
RoundEven(neg, q, e, half, rest) ==
    RoundCarry(neg, IF half /\ (rest \/ BBit(q, 0) = 1) THEN BAdd(q, <<1>>) ELSE q, e)

\* m # 0 has sh bits more than MantBits
RoundBits(neg, m, e, sticky, sh) ==
    IF sh <= 0 THEN [neg |-> neg, man |-> BShl(m, -sh), exp |-> e + sh]
    ELSE RoundEven(neg, BShr(m, sh), e + sh, BBit(m, sh - 1) = 1,
                   sticky \/ ~BLowZero(m, sh - 1))

\* the double nearest to (-1)^neg * (m + f) * 2^e, 0 <= f < 1, where sticky
\* tells whether f > 0 (in which case m has more than MantBits + 1 bits)
Round(neg, m, e, sticky) ==
    IF m = <<>> THEN Zero ELSE RoundBits(neg, m, e, sticky, BLen(m) - MantBits)

\* float(n) for a Python int n
FromInt(n) == Round(n < 0, BFromInt(IF n < 0 THEN -n ELSE n), 0, FALSE)

\* n / 2^k, exactly
Dyadic(n, k) == IF n = 0 THEN Zero ELSE [FromInt(n) EXCEPT !.exp = @ - k]

FNeg(x) == IF x = Zero THEN Zero ELSE [x EXCEPT !.neg = ~@]

IsPos(x) == x # Zero /\ ~x.neg

IsNeg(x) == x # Zero /\ x.neg

FMul(x, y) ==
    IF x = Zero \/ y = Zero THEN Zero
    ELSE Round(x.neg # y.neg, BMul(x.man, y.man), x.exp + y.exp, FALSE)

\* the sum of (-1)^xneg * mx * 2^e and (-1)^yneg * my * 2^e
FAddAligned(xneg, mx, yneg, my, e) ==
    IF xneg = yneg THEN Round(xneg, BAdd(mx, my), e, FALSE)
    ELSE IF BCmp(mx, my) >= 0 THEN Round(xneg, BSub(mx, my), e, FALSE)
    ELSE Round(yneg, BSub(my, mx), e, FALSE)

\* x + y for x # 0 and y # 0, e the lower of their exponents
FAddFrom(x, y, e) ==
    FAddAligned(x.neg, BShl(x.man, x.exp - e), y.neg, BShl(y.man, y.exp - e), e)

FAdd(x, y) ==
    IF x = Zero THEN y
    ELSE IF y = Zero THEN x
    ELSE FAddFrom(x, y, Min(x.exp, y.exp))

FSub(x, y) == FAdd(x, FNeg(y))

\* limbs of a significand, and the shift that fills its highest limb
MantLimbs == (MantBits + LimbBits - 1) \div LimbBits

MantPad == MantLimbs * LimbBits - MantBits

\* qr is the quotient and the remainder of a division of significands
FDivRound(neg, qr, e) == Round(neg, qr[1], e, qr[2] # <<>>)

\* n / d to MantLimbs limbs past the point, for significands n and d that
\* fill their highest limb (so that 1/2 < n / d < 2)
FDivAligned(neg, n, d, e) ==
    IF BCmp(n, d) >= 0
    THEN FDivRound(neg, BDivLimbs(BSub(n, d), d, MantLimbs, <<1>>), e)
    ELSE FDivRound(neg, BDivLimbs(n, d, MantLimbs, <<>>), e)

\* x / y for y # 0: the quotient of the significands to MantLimbs limbs past
\* the point, and whether a remainder is left
FDiv(x, y) ==
    IF x = Zero THEN Zero
    ELSE FDivAligned(x.neg # y.neg, BShl(x.man, MantPad), BShl(y.man, MantPad),
                     x.exp - y.exp - MantLimbs * LimbBits)

\* -1, 0, 1 as d < 0, d = 0, d > 0
FSign(d) == IF d = Zero THEN 0 ELSE IF d.neg THEN -1 ELSE 1

\* -1, 0, 1 as x < y, x = y, x > y
FCmp(x, y) == FSign(FSub(x, y))

(***************************************************************************)
(* The script.  inputs holds the widget values (the only state Streamlit   *)
(* keeps between reruns), ns the script's global variables as the last run *)
(* left them, outcome how the last run ended.                              *)
(***************************************************************************)
VARIABLES inputs, ns, outcome

vars == <<inputs, ns, outcome>>

\* the float literals of the script
One == FromInt(1)

Hundred == FromInt(100)

\* 0.0001: the double nearest to 1/10000
CapRateFloor == FDiv(FromInt(1), FromInt(10000))

\* the value= arguments of the widgets
Defaults ==
    [buildable_sf           |-> 2000,
     units                  |-> 10,
     land_cost              |-> 500000,
     hard_cost_per_sf       |-> 350,
     soft_cost_pct          |-> FromInt(15),
     contingency_pct        |-> Dyadic(15, 1),
     loan_to_cost           |-> FromInt(65),
     interest_rate          |-> FromInt(7),
     rent_per_sf_year       |-> 45,
     stabilized_vacancy_pct |-> FromInt(5),
     op_ex_pct              |-> FromInt(35),
     exit_cap_rate          |-> FromInt(5),
     sale_cost_pct          |-> FromInt(1),
     hold_period_years      |-> 4]

Widgets == DOMAIN Defaults

Globals ==
    {"hard_costs", "soft_costs", "contingency", "total_project_cost",
     "loan_amount", "equity_required",
     "pgi", "vacancy_loss", "egi", "op_ex", "noi",
     "cap_rate_decimal", "stabilized_value", "sale_costs", "net_sale_before_debt",
     "developer_profit_unlevered", "dev_margin_on_cost",
     "equity_exit_cash", "equity_profit", "equity_multiple", "irr"}

\* the globals before the script has assigned any of them
Unset == [unset |-> TRUE]

\* values of the script that are no floats: an int, None, a raised exception
PyInt(k) == [int |-> k]

None == [none |-> TRUE]

ZeroDivisionError == [raise |-> "ZeroDivisionError"]

NoError == [raise |-> "none"]

\* raised is no global of the script: it names the exception that ended the
\* run, NoError while there is none
FreshNamespace == [g \in Globals \cup {"raised"} |-> IF g = "raised" THEN NoError ELSE Unset]

\* x / y of Python: a zero divisor raises ZeroDivisionError
PyDiv(x, y) == IF y = Zero THEN ZeroDivisionError ELSE FDiv(x, y)

\* x ** y of Python floats for x > 0, which is pow() of the C library: x for
\* y = 1.0, 1.0 for x = 1.0, and otherwise a value this model does not compute
PyPow(x, y) ==
    IF y = One THEN x
    ELSE IF x = One THEN One
    ELSE [pow |-> <<x, y>>]

\* p - 1.0 for the result p of PyPow
PowMinusOne(p) == IF "pow" \in DOMAIN p THEN [minus_one |-> p] ELSE FSub(p, One)

\* one assignment statement, name = v: nothing once an exception has ended
\* the run, and an exception raised by v ends the run before the assignment
Assign(n, name, v) ==
    IF n.raised # NoError THEN n
    ELSE IF v = ZeroDivisionError THEN [n EXCEPT !.raised = v]
    ELSE [n EXCEPT ![name] = v]

\* hard_costs memoised: once set, the global is never recomputed
hard_costs_cached(n, in) ==
    Assign(n, "hard_costs",
           IF n.hard_costs # Unset THEN n.hard_costs
           ELSE PyInt(in.buildable_sf * in.hard_cost_per_sf))

\* Costs
hard_costs(n, in) ==
    Assign(n, "hard_costs", PyInt(in.buildable_sf * in.hard_cost_per_sf))

soft_costs(n, in) ==
    Assign(n, "soft_costs",
           FMul(FromInt(n.hard_costs.int), FDiv(in.soft_cost_pct, Hundred)))

contingency(n, in) ==
    Assign(n, "contingency",
           FMul(FAdd(FromInt(n.hard_costs.int), n.soft_costs),
                FDiv(in.contingency_pct, Hundred)))

\* land_cost + hard_costs is a sum of ints
total_project_cost(n, in) ==
    Assign(n, "total_project_cost",
           FAdd(FAdd(FromInt(in.land_cost + n.hard_costs.int), n.soft_costs),
                n.contingency))

Costs(n, in) ==
    total_project_cost(contingency(soft_costs(hard_costs(n, in), in), in), in)

\* loan_amount with the construction interest added to the loan
loan_amount_interest(n, in) ==
    Assign(n, "loan_amount",
           FMul(FMul(n.total_project_cost, FDiv(in.loan_to_cost, Hundred)),
                FAdd(One, FDiv(in.interest_rate, Hundred))))

\* loan_amount with the loan-to-cost taken as a fraction, not a percentage
loan_amount_fraction(n, in) ==
    Assign(n, "loan_amount", FMul(n.total_project_cost, in.loan_to_cost))

\* Financing
loan_amount(n, in) ==
    Assign(n, "loan_amount",
           FMul(n.total_project_cost, FDiv(in.loan_to_cost, Hundred)))

\* equity_required with the operands of the subtraction exchanged
equity_required_swapped(n, in) ==
    Assign(n, "equity_required", FSub(n.loan_amount, n.total_project_cost))

equity_required(n, in) ==
    Assign(n, "equity_required", FSub(n.total_project_cost, n.loan_amount))

Financing(n, in) == equity_required(loan_amount(n, in), in)

\* Income (stabilized, annual)
pgi(n, in) == Assign(n, "pgi", PyInt(in.buildable_sf * in.rent_per_sf_year))

vacancy_loss(n, in) ==
    Assign(n, "vacancy_loss",
           FMul(FromInt(n.pgi.int), FDiv(in.stabilized_vacancy_pct, Hundred)))

egi(n, in) == Assign(n, "egi", FSub(FromInt(n.pgi.int), n.vacancy_loss))

\* op_ex taken from pgi instead of egi
op_ex_on_pgi(n, in) ==
    Assign(n, "op_ex", FMul(FromInt(n.pgi.int), FDiv(in.op_ex_pct, Hundred)))

op_ex(n, in) == Assign(n, "op_ex", FMul(n.egi, FDiv(in.op_ex_pct, Hundred)))

noi(n, in) == Assign(n, "noi", FSub(n.egi, n.op_ex))

Income(n, in) == noi(op_ex(egi(vacancy_loss(pgi(n, in), in), in), in), in)

\* cap_rate_decimal with the floor taken only below zero (>= 0 for > 0)
cap_rate_decimal_unclamped(n, in) ==
    Assign(n, "cap_rate_decimal",
           IF ~IsNeg(in.exit_cap_rate) THEN FDiv(in.exit_cap_rate, Hundred)
           ELSE CapRateFloor)

\* Exit
cap_rate_decimal(n, in) ==
    Assign(n, "cap_rate_decimal",
           IF IsPos(in.exit_cap_rate) THEN FDiv(in.exit_cap_rate, Hundred)
           ELSE CapRateFloor)

stabilized_value(n, in) ==
    Assign(n, "stabilized_value", PyDiv(n.noi, n.cap_rate_decimal))

sale_costs(n, in) ==
    Assign(n, "sale_costs",
           FMul(n.stabilized_value, FDiv(in.sale_cost_pct, Hundred)))

net_sale_before_debt(n, in) ==
    Assign(n, "net_sale_before_debt", FSub(n.stabilized_value, n.sale_costs))

Exit(n, in) ==
    net_sale_before_debt(sale_costs(stabilized_value(cap_rate_decimal(n, in), in), in), in)

developer_profit_unlevered(n, in) ==
    Assign(n, "developer_profit_unlevered",
           FSub(n.net_sale_before_debt, n.total_project_cost))

\* dev_margin_on_cost without the guard on total_project_cost
dev_margin_on_cost_unguarded(n, in) ==
    Assign(n, "dev_margin_on_cost",
           PyDiv(n.developer_profit_unlevered, n.total_project_cost))

\* the else branch gives the int 0
dev_margin_on_cost(n, in) ==
    Assign(n, "dev_margin_on_cost",
           IF IsPos(n.total_project_cost)
           THEN PyDiv(n.developer_profit_unlevered, n.total_project_cost)
           ELSE PyInt(0))

Profit(n, in) == dev_margin_on_cost(developer_profit_unlevered(n, in), in)

\* the levered payoff
equity_exit_cash(n, in) ==
    Assign(n, "equity_exit_cash", FSub(n.net_sale_before_debt, n.loan_amount))

equity_profit(n, in) ==
    Assign(n, "equity_profit", FSub(n.equity_exit_cash, n.equity_required))

\* equity_multiple with the guard >= 0 for > 0
equity_multiple_unguarded(n, in) ==
    Assign(n, "equity_multiple",
           IF ~IsNeg(n.equity_required)
           THEN PyDiv(n.equity_exit_cash, n.equity_required)
           ELSE PyInt(0))

equity_multiple(n, in) ==
    Assign(n, "equity_multiple",
           IF IsPos(n.equity_required)
           THEN PyDiv(n.equity_exit_cash, n.equity_required)
           ELSE PyInt(0))

Levered(n, in) == equity_multiple(equity_profit(equity_exit_cash(n, in), in), in)

\* calc_irr without the test of equity_out
calc_irr_any_out(equity_out, equity_in, years) ==
    IF ~IsPos(equity_in) \/ years <= 0
    THEN None
    ELSE PowMinusOne(PyPow(FDiv(equity_out, equity_in), FDiv(One, FromInt(years))))

\* calc_irr; years is a Python int
calc_irr(equity_out, equity_in, years) ==
    IF ~IsPos(equity_in) \/ ~IsPos(equity_out) \/ years <= 0
    THEN None
    ELSE PowMinusOne(PyPow(FDiv(equity_out, equity_in), FDiv(One, FromInt(years))))

irr(n, in) ==
    Assign(n, "irr", calc_irr(n.equity_exit_cash, n.equity_required,
                              in.hold_period_years))

\* the Core Calculations, from the globals n of the previous run
CoreCalculations(n, in) ==
    irr(Levered(Profit(Exit(Income(Financing(Costs([n EXCEPT !.raised = NoError],
        in), in), in), in), in), in), in)

\* what CPython makes of the file: the indented block after the calculations
\* is in no compound statement, so compiling the file fails
Compile == "IndentationError"

\* a run that got to execute, with the globals m the calculations left
Executed(m) ==
    [ns |-> m, outcome |-> IF m.raised = NoError THEN "rendered" ELSE m.raised.raise]

\* one run of the script: nothing executes unless the file compiles
RunScript(n, in) ==
    IF Compile # "ok" THEN [ns |-> n, outcome |-> Compile]
    ELSE Executed(CoreCalculations(n, in))

(***************************************************************************)
(* Input values.  Near: slider positions around the defaults.  Corners:    *)
(* the ends of the sliders.  Beyond: values the engine accepts and the     *)
(* sliders cannot supply (no cost, full leverage, no cap rate, no hold).   *)
(***************************************************************************)
MaxYears == 1

Only == [w \in Widgets |-> {Defaults[w]}]

Near ==
    [Only EXCEPT !.buildable_sf     = {2000, 3900},
                 !.hard_cost_per_sf = {350, 210},
                 !.soft_cost_pct    = {FromInt(15), FromInt(19)},
                 !.contingency_pct  = {Dyadic(15, 1), FromInt(3)},
                 !.loan_to_cost     = {FromInt(65), FromInt(15)},
                 !.units            = {10, 11},
                 !.interest_rate    = {FromInt(7), Dyadic(29, 2)}]

Corners ==
    [Only EXCEPT !.buildable_sf      = {2000, 1000},
                 !.hard_cost_per_sf  = {350, 100},
                 !.land_cost         = {500000, 0},
                 !.loan_to_cost      = {FromInt(65), FromInt(0), FromInt(85)},
                 !.exit_cap_rate     = {FromInt(5), FromInt(3), FromInt(10)},
                 !.hold_period_years = {4, 1}]

Beyond ==
    [Only EXCEPT !.hard_cost_per_sf  = {350, 0},
                 !.land_cost         = {500000, 0},
                 !.loan_to_cost      = {FromInt(65), FromInt(15), FromInt(100)},
                 !.exit_cap_rate     = {FromInt(5), FromInt(10), FromInt(0), Dyadic(-5, 1)},
                 !.hold_period_years = {4} \cup (0..MaxYears)]

(***************************************************************************)
(* Every change of a widget reruns the script from the top, to completion. *)
(***************************************************************************)
Init ==
    /\ inputs = Defaults
    /\ ns = CoreCalculations(FreshNamespace, Defaults)
    /\ outcome = "computed"

\* the state after a recomputation with the inputs in that left the globals m
Recomputed(in, m) ==
    /\ inputs' = in
    /\ ns' = m
    /\ outcome' = IF m.raised = NoError THEN "computed" ELSE m.raised.raise

\* the calculations, taken as the engine of the inputs
Recompute(dom) ==
    \E w \in Widgets : \E v \in dom[w] :
        /\ v # inputs[w]
        /\ \E in \in {[inputs EXCEPT ![w] = v]} :
               Recomputed(in, CoreCalculations(ns, in))

NearNext == Recompute(Near)

CornerNext == Recompute(Corners)

BeyondNext == Recompute(Beyond)

Spec == Init /\ [][NearNext]_vars

CornerSpec == Init /\ [][CornerNext]_vars

EngineSpec == Init /\ [][BeyondNext]_vars

\* the file as it is: the script as Streamlit runs it
ScriptInit ==
    /\ inputs = Defaults
    /\ \E r \in {RunScript(FreshNamespace, Defaults)} :
           ns = r.ns /\ outcome = r.outcome

\* the state after a run r of the script with the inputs in
Reran(in, r) ==
    /\ inputs' = in
    /\ ns' = r.ns
    /\ outcome' = r.outcome

Rerun ==
    \E w \in Widgets : \E v \in Corners[w] \cup Near[w] :
        /\ v # inputs[w]
        /\ \E in \in {[inputs EXCEPT ![w] = v]} : Reran(in, RunScript(ns, in))

ScriptSpec == ScriptInit /\ [][Rerun]_vars

(***************************************************************************)
(* Properties.                                                             *)
(***************************************************************************)
FAbs(x) == [x EXCEPT !.neg = FALSE]

\* the unit in the last place of a double x # 0
Ulp(x) == [neg |-> FALSE, man |-> BShl(<<1>>, MantBits - 1), exp |-> x.exp - (MantBits - 1)]

FLe(x, y) == FCmp(x, y) <= 0

FMax(x, y) == IF FLe(x, y) THEN y ELSE x

\* v == k of Python for a small int k: an int and a float of one value are equal
PyEq(v, k) == v = PyInt(k) \/ v = FromInt(k)

Computed == outcome = "computed" /\ ns.raised = NoError

LoanPct == FDiv(inputs.loan_to_cost, Hundred)

\* C1 as stated: the financing step splits the cost exactly,
\* equity_required + loan_amount == total_project_cost
C1_ExactSplit ==
    Computed =>
        /\ ns.loan_amount = FMul(ns.total_project_cost, LoanPct)
        /\ ns.equity_required = FSub(ns.total_project_cost, ns.loan_amount)
        /\ FAdd(ns.equity_required, ns.loan_amount) = ns.total_project_cost

\* C1 as amended: loan_amount and equity_required are the float results of the
\* two formulas, and equity_required + loan_amount, added as floats, is within
\* one unit in the last place of total_project_cost; it is total_project_cost
\* itself whenever the loan is at least half of the cost
C1_SplitWithinUlp ==
    Computed =>
        /\ ns.loan_amount = FMul(ns.total_project_cost, LoanPct)
        /\ ns.equity_required = FSub(ns.total_project_cost, ns.loan_amount)
        /\ LET sum == FAdd(ns.equity_required, ns.loan_amount)
               gap == FAbs(FSub(sum, ns.total_project_cost))
           IN  /\ gap = Zero \/ FLe(gap, Ulp(ns.total_project_cost))
               /\ FLe(ns.total_project_cost, FAdd(ns.loan_amount, ns.loan_amount))
                      => gap = Zero

C1_Witness ==
    /\ Computed
    /\ FAdd(ns.equity_required, ns.loan_amount) # ns.total_project_cost
    /\ FLe(FAbs(FSub(FAdd(ns.equity_required, ns.loan_amount), ns.total_project_cost)),
           Ulp(ns.total_project_cost))

Ratio == FDiv(ns.equity_exit_cash, ns.equity_required)

IrrGuard ==
    \/ ~IsPos(ns.equity_required)
    \/ ~IsPos(ns.equity_exit_cash)
    \/ inputs.hold_period_years <= 0

IrrFormula == PowMinusOne(PyPow(Ratio, FDiv(One, FromInt(inputs.hold_period_years))))

IsFloat(v) == DOMAIN v = {"neg", "man", "exp"}

\* C2 as stated: the IRR is "not applicable" exactly when equity_required <= 0
\* or equity_exit_cash <= 0 or hold_period_years <= 0, otherwise it is
\* (equity_exit_cash / equity_required) ** (1 / hold_period_years) - 1, and
\* then (1 + irr) ** hold_period_years == equity_exit_cash / equity_required
C2_IrrExactRoot ==
    Computed =>
        /\ ns.irr = None <=> IrrGuard
        /\ ~IrrGuard => ns.irr = IrrFormula
        /\ ~IrrGuard /\ IsFloat(ns.irr) =>
               PyPow(FAdd(One, ns.irr), FromInt(inputs.hold_period_years)) = Ratio

\* C2 as amended: "not applicable" exactly in the three cases; otherwise irr
\* is the float value of the formula, and (1 + irr) ** hold_period_years gives
\* the ratio back only up to rounding: for a hold of one year to within 2^-54
\* or one unit in the last place of the ratio, whichever is larger
C2_IrrRoundedRoot ==
    Computed =>
        /\ ns.irr = None <=> IrrGuard
        /\ ~IrrGuard => ns.irr = IrrFormula
        /\ ~IrrGuard /\ inputs.hold_period_years = 1 =>
               FLe(FAbs(FSub(FAdd(One, ns.irr), Ratio)),
                   FMax(Dyadic(1, MantBits + 1), Ulp(Ratio)))

C2_Witness ==
    /\ Computed
    /\ ~IrrGuard
    /\ inputs.hold_period_years = 1
    /\ ns.irr = FSub(Ratio, One)
    /\ FAdd(One, ns.irr) # Ratio

\* C3: whenever equity_required == 0, equity_multiple == 0 and the IRR is
\* "not applicable", whatever the other inputs are
C3_ZeroEquity ==
    ns.equity_required = Zero =>
        /\ Computed
        /\ PyEq(ns.equity_multiple, 0)
        /\ ns.irr = None

C3_Witness ==
    /\ Computed
    /\ ns.equity_required = Zero
    /\ IsPos(ns.equity_exit_cash)
    /\ ns.equity_multiple = PyInt(0)
    /\ ns.irr = None

\* C4: for exit_cap_rate <= 0 the cap rate used is the floor 0.0001 and
\* stabilized_value == noi / 0.0001 without a division by zero; for
\* exit_cap_rate > 0 it is exit_cap_rate / 100 and stabilized_value is noi
\* divided by that
C4_CapRateClamp ==
    LET rate == IF IsPos(inputs.exit_cap_rate)
                THEN FDiv(inputs.exit_cap_rate, Hundred)
                ELSE FDiv(FromInt(1), FromInt(10000))
    IN  /\ outcome # "ZeroDivisionError"
        /\ ns.cap_rate_decimal = rate
        /\ ns.stabilized_value = FDiv(ns.noi, rate)

C4_Witness ==
    /\ Computed
    /\ ~IsPos(inputs.exit_cap_rate)
    /\ IsPos(ns.noi)
    /\ ns.stabilized_value = FDiv(ns.noi, CapRateFloor)

\* C5: for total_project_cost == 0, dev_margin_on_cost == 0 without a
\* division error; for total_project_cost > 0 it is
\* developer_profit_unlevered / total_project_cost
C5_MarginGuard ==
    /\ outcome # "ZeroDivisionError"
    /\ ns.total_project_cost = Zero => PyEq(ns.dev_margin_on_cost, 0)
    /\ IsPos(ns.total_project_cost) =>
           ns.dev_margin_on_cost =
               FDiv(ns.developer_profit_unlevered, ns.total_project_cost)

C5_Witness ==
    /\ Computed
    /\ ns.total_project_cost = Zero
    /\ inputs.land_cost = 0
    /\ ns.developer_profit_unlevered # Zero
    /\ ns.dev_margin_on_cost = PyInt(0)

\* C6: every run of the program completes without an error and reaches the
\* point where the metrics are rendered
C6_AlwaysRenders == outcome = "rendered"

\* C7: after any sequence of input changes, each followed by a recomputation,
\* the outputs are the engine applied to the current inputs alone
C7_HistoryFree == ns = CoreCalculations(FreshNamespace, inputs)

C7_Witness ==
    /\ inputs.buildable_sf # Defaults.buildable_sf
    /\ inputs.loan_to_cost # Defaults.loan_to_cost
    /\ ns.hard_costs = PyInt(inputs.buildable_sf * inputs.hard_cost_per_sf)
    /\ ns = CoreCalculations(FreshNamespace, inputs)

\* the fields of the output schema
Outputs == Globals \ {"cap_rate_decimal"}

Schema(n) == [g \in Outputs |-> n[g]]

\* C8: units and interest_rate influence no output: runs whose inputs differ
\* only in them agree on every field of the output schema
C8_DisplayOnlyInputs ==
    \A u \in Near.units : \A r \in Near.interest_rate :
        Schema(CoreCalculations(FreshNamespace,
                                [inputs EXCEPT !.units = u, !.interest_rate = r]))
            = Schema(ns)

C8_Witness ==
    /\ inputs.units # Defaults.units
    /\ inputs.interest_rate # Defaults.interest_rate
    /\ Schema(ns) = Schema(CoreCalculations(FreshNamespace,
                               [inputs EXCEPT !.units = Defaults.units,
                                              !.interest_rate = Defaults.interest_rate]))

\* the ten inputs of the default scenario
Scenario ==
    \A w \in {"buildable_sf", "land_cost", "hard_cost_per_sf", "soft_cost_pct",
              "contingency_pct", "loan_to_cost", "rent_per_sf_year",
              "stabilized_vacancy_pct", "op_ex_pct", "exit_cap_rate"} :
        inputs[w] = Defaults[w]

ScenarioButOpEx ==
    /\ ns.hard_costs = PyInt(700000)
    /\ ns.soft_costs = FromInt(105000)
    /\ ns.contingency = FromInt(60375)
    /\ ns.total_project_cost = FromInt(1365375)
    /\ ns.loan_amount = Dyadic(3549975, 2)
    /\ ns.equity_required = Dyadic(1911525, 2)
    /\ ns.pgi = PyInt(90000)
    /\ ns.vacancy_loss = FromInt(4500)
    /\ ns.egi = FromInt(85500)
    /\ ns.noi = FromInt(55575)
    /\ ns.stabilized_value = FromInt(1111500)

\* C9 as stated: the default inputs yield hard_costs=700000, soft_costs=105000,
\* contingency=60375, total_project_cost=1365375, loan_amount=887493.75,
\* equity_required=477881.25, pgi=90000, vacancy_loss=4500, egi=85500,
\* op_ex=29925, noi=55575 and stabilized_value=1111500
C9_DefaultScenario ==
    Scenario => ScenarioButOpEx /\ ns.op_ex = FromInt(29925)

\* C9 as amended: the same figures, but op_ex is 29924.999999999996, the
\* double next below 29925 (29925 - 2^-38), which is displayed as $29,925
C9_DefaultScenarioFloat ==
    Scenario => ScenarioButOpEx /\ ns.op_ex = FSub(FromInt(29925), Dyadic(1, 38))

C9_Witness ==
    /\ Scenario
    /\ Computed
    /\ inputs.units # Defaults.units
    /\ ns.noi = FromInt(55575)
    /\ ns.op_ex # FromInt(29925)

\* C10: with inputs the sidebar widgets can supply, total_project_cost > 0,
\* equity_required > 0 and exit_cap_rate > 0, so neither the cap-rate floor
\* nor a zero substitution is taken, and the IRR is "not applicable" exactly
\* when equity_exit_cash <= 0
C10_WidgetRanges ==
    /\ Computed
    /\ IsPos(ns.total_project_cost)
    /\ IsPos(ns.equity_required)
    /\ IsPos(inputs.exit_cap_rate)
    /\ ns.cap_rate_decimal = FDiv(inputs.exit_cap_rate, Hundred)
    /\ ns.dev_margin_on_cost = FDiv(ns.developer_profit_unlevered, ns.total_project_cost)
    /\ ns.equity_multiple = Ratio
    /\ ns.irr = None <=> ~IsPos(ns.equity_exit_cash)

C10_Witness ==
    /\ inputs.loan_to_cost = FromInt(85)
    /\ inputs.land_cost = 0
    /\ inputs.hard_cost_per_sf = 100
    /\ inputs.buildable_sf = 1000
    /\ IsPos(ns.equity_required)
    /\ ns.irr # None

====
